---- MODULE Spec2Model ----
(***************************************************************************)
(* A model of the game engine of scripts/main.js (simple-tetris): the      *)
(* board, the falling piece, collision, merge, line clearing, rotation,    *)
(* the timer-driven tick, the keyboard handler and start()/gameOver().     *)
(* Each handler runs to completion (one event-loop task), so each is one   *)
(* action.  The drawing itself and the audio are left out; draws counts    *)
(* the calls of draw().                                                    *)
(*                                                                         *)
(* Coordinates are the program's: px, py, and the x, y of collide are      *)
(* 0-based; TLA+ sequences are 1-based, so board[y][x] of the program is   *)
(* board[y + 1][x + 1] here.                                               *)
(*                                                                         *)
(* The program's grid is 10 x 20.  The model's grid is COLS x ROWS with    *)
(* the smaller values below, which keep every formula of the program       *)
(* (floor(COLS/2) - 1, the wall and floor tests) and leave room for every  *)
(* catalog shape at its spawn position in each of its rotations.           *)
(***************************************************************************)
EXTENDS Integers, Sequences, FiniteSets

VARIABLES
  board,    \* main.js:148  the playfield, ROWS rows of COLS cells (0 / 1)
  piece,    \* main.js:149  the falling tetromino, rows of 0 / 1
  px,       \* main.js:150  column of the piece's top-left corner
  py,       \* main.js:151  row of the piece's top-left corner
  score,    \* main.js:152
  loop,     \* main.js:153  handle of the last setInterval (0: undefined)
  scoreEl,  \* main.js:32   scoreEl.textContent (NoText: as index.html left it)
  timers,   \* the host's active interval timers, each calling tick
  phase,    \* "Idle" before start(), "Running", "GameOver" once gameOver() ran
  lastOp,   \* the handler that ran last
  draws,    \* number of draw() calls the last handler made
  locks,    \* pieces merged into the board since the last start()
  catalog,  \* main.js:137  the arrays the SHAPES object holds
  call,     \* the last direct call of a helper: its arguments and result
  fallen    \* ticks the piece has fallen since its spawn (SpecCounted only)

vars == <<board, piece, px, py, score, loop, scoreEl, timers, phase, lastOp,
          draws, locks, catalog, call, fallen>>

----------------------------------------------------------------------------
(* Bounds of the model.  MaxLocks bounds the pieces locked in one game (the
   locking branch of tick is not taken beyond it); MaxTimers bounds the
   interval timers active at once. *)

COLS == 5
ROWS == 4
MaxLocks == 3
MaxTimers == 2

(* Undefined stands for JavaScript's undefined in board, piece, px, py and
   score before the first start(); the undefined (falsy) loop is 0, which no
   interval handle is.  NoText stands for the text index.html gives the
   score element, which no assignment of the program has replaced yet. *)
Undefined == <<>>
NoText == -1

----------------------------------------------------------------------------
(* main.js:137-145  the shape catalog, and Object.keys(SHAPES) in order *)

SHAPES ==
  [ I |-> << <<1,1,1,1>> >>,
    O |-> << <<1,1>>, <<1,1>> >>,
    L |-> << <<1,0>>, <<1,0>>, <<1,1>> >>,
    J |-> << <<0,1>>, <<0,1>>, <<1,1>> >>,
    T |-> << <<1,1,1>>, <<0,1,0>> >>,
    S |-> << <<0,1,1>>, <<1,1,0>> >>,
    Z |-> << <<1,1,0>>, <<0,1,1>> >> ]

keys == << "I", "O", "L", "J", "T", "S", "Z" >>

(* The values Math.floor(Math.random() * keys.length) can take *)
RandomIndex == 0 .. (Len(keys) - 1)

----------------------------------------------------------------------------
(* main.js:161-165 *)
EmptyRow == [c \in 1..COLS |-> 0]

newBoard == [r \in 1..ROWS |-> EmptyRow]

(* Mutant of newPiece: the template is handed out rotated *)
newPieceTurned(i) ==
  [r \in 1..Len(catalog[keys[i + 1]][1]) |->
    [c \in 1..Len(catalog[keys[i + 1]]) |->
      catalog[keys[i + 1]][c][Len(catalog[keys[i + 1]][1]) + 1 - r]]]

(* main.js:174-182  i is the random index; the result is a copy, row by row,
   of what the catalog holds under the drawn key *)
newPiece(i) ==
  [r \in 1..Len(catalog[keys[i + 1]]) |-> catalog[keys[i + 1]][r]]

(* Mutant of collide: the test x >= COLS missing; a read past the end of a
   row finds undefined *)
collideNoRightWall(b, nx, ny, np) ==
  \E r \in 0 .. (Len(np) - 1) : \E c \in 0 .. (Len(np[r + 1]) - 1) :
    /\ np[r + 1][c + 1] # 0
    /\ LET x == nx + c
           y == ny + r
       IN  \/ x < 0
           \/ y >= ROWS
           \/ x + 1 \in DOMAIN b[y + 1] /\ b[y + 1][x + 1] # 0

(* main.js:232-252  true iff some filled cell of np at (nx, ny) is outside
   the left wall, the right wall or the floor, or on a filled cell of b.
   The tests are made in the program's order (\/ is evaluated left to
   right), so b is read only at 0 <= x < COLS and y < ROWS. *)
collide(b, nx, ny, np) ==
  \E r \in 0 .. (Len(np) - 1) :
    \E c \in 0 .. (Len(np[r + 1]) - 1) :
      /\ np[r + 1][c + 1] # 0
      /\ LET x == nx + c
             y == ny + r
         IN  \/ x < 0
             \/ x >= COLS
             \/ y >= ROWS
             \/ b[y + 1][x + 1] # 0

(* main.js:259-264  every filled cell of p at (x, y) is written into b.
   Covers(p, x, y, r, c): p anchored at (x, y) has a filled cell on the grid
   cell of row r, column c.  An assignment board[row][col] = 1 with col past
   the end of the row lengthens the row (mergedLen; the cells skipped read as
   undefined, 0 here) and one with col < 0 sets no array element.  One with
   no such row throws; mergeWrites names the cells written, so that a state
   can say that no write leaves the board. *)
Covers(p, x, y, r, c) ==
  /\ r - y \in 0 .. (Len(p) - 1)
  /\ c - x \in 0 .. (Len(p[r - y + 1]) - 1)
  /\ p[r - y + 1][c - x + 1] # 0

mergeWrites(p, x, y) ==
  { <<x + c, y + r>> : <<r, c>> \in
      { rc \in (0 .. (Len(p) - 1)) \X (0 .. (Len(p[1]) - 1)) :
          p[rc[1] + 1][rc[2] + 1] # 0 } }

mergedLen(b, p, x, y, r) ==
  IF \E w \in mergeWrites(p, x, y) : w[2] = r - 1 /\ w[1] + 1 > Len(b[r])
    THEN CHOOSE n \in 1 .. (x + Len(p[1])) :
           /\ <<n - 1, r - 1>> \in mergeWrites(p, x, y)
           /\ \A w \in mergeWrites(p, x, y) : w[2] = r - 1 => w[1] < n
    ELSE Len(b[r])

merge(b, p, x, y) ==
  [r \in 1..Len(b) |->
    [c \in 1..mergedLen(b, p, x, y, r) |->
      IF Covers(p, x, y, r - 1, c - 1) THEN 1
      ELSE IF c <= Len(b[r]) THEN b[r][c] ELSE 0]]

(* main.js:277  the rows that keep at least one empty cell *)
HasEmpty(row) == \E i \in 1..Len(row) : row[i] = 0

(* Mutant of filterRows: the filter of line 277 missing *)
filterRowsAll(b) == b

filterRows(b) == SelectSeq(b, HasEmpty)

(* main.js:279-282  empty rows are put on top until there are ROWS rows;
   cleared counts the rows put *)
clearedCount(b) ==
  IF Len(filterRows(b)) < ROWS THEN ROWS - Len(filterRows(b)) ELSE 0

(* Mutant of clearLinesBoard: push in place of unshift, the empty rows are
   added at the bottom *)
clearLinesBoardPush(b) ==
  filterRows(b) \o [i \in 1..clearedCount(b) |-> EmptyRow]

clearLinesBoard(b) ==
  [i \in 1..clearedCount(b) |-> EmptyRow] \o filterRows(b)

(* Mutant of clearLinesScore: one point for a cleared row *)
clearLinesScoreOnePerRow(b, s) == s + clearedCount(b)

(* Mutant of clearLinesScore: five points for a cleared row *)
clearLinesScoreFive(b, s) == s + clearedCount(b) * 5

(* main.js:284 *)
clearLinesScore(b, s) == s + clearedCount(b) * 10

(* Mutant of transpose: p.map in place of p[0].map, one result row for each
   row of p *)
transposeByRows(p) ==
  [i \in 1..Len(p) |->
    [r \in 1..Len(p) |-> IF i <= Len(p[r]) THEN p[r][i] ELSE 0]]

(* main.js:366-370  transpose, then reverse the rows *)
transpose(p) == [i \in 1..Len(p[1]) |-> [r \in 1..Len(p) |-> p[r][i]]]

(* Mutant of reverse: the last element is lost *)
reverseDropLast(s) == [i \in 1 .. (Len(s) - 1) |-> s[Len(s) + 1 - i]]

reverse(s) == [i \in 1..Len(s) |-> s[Len(s) + 1 - i]]

rotate(p) == reverse(transpose(p))

(* Mutant of SpawnCol: the "- 1" of line 324 forgotten *)
SpawnColNoOffset == COLS \div 2

(* main.js:324  Math.floor(COLS / 2) - 1 *)
SpawnCol == (COLS \div 2) - 1

----------------------------------------------------------------------------
(* The host's timers.  clearInterval(h) cancels the timer h (a handle that
   names no active timer is ignored); setInterval returns a handle greater
   than zero that names no active timer: here the lowest one. *)
clearInterval(ts, h) == ts \ {h}

FreshHandle(ts) == CHOOSE h \in 1 .. (Cardinality(ts) + 1) : h \notin ts

(* Mutant of startClear: line 351 missing, the old interval keeps running *)
startNoClear(ts, lp) == ts

(* main.js:351  if(loop) clearInterval(loop) *)
startClear(ts, lp) == IF lp # 0 THEN clearInterval(ts, lp) ELSE ts

----------------------------------------------------------------------------
Init ==
  /\ board = Undefined
  /\ piece = Undefined
  /\ px = Undefined
  /\ py = Undefined
  /\ score = Undefined
  /\ loop = 0
  /\ scoreEl = NoText
  /\ timers = {}
  /\ phase = "Idle"
  /\ lastOp = "none"
  /\ draws = 0
  /\ locks = 0
  /\ catalog = SHAPES
  /\ call = [fn |-> "none", n |-> 0]
  /\ fallen = 0

(* Mutant of resetPiece: the piece is spawned one row above the board *)
resetPieceAbove(i) ==
  /\ piece' = newPiece(i)
  /\ px' = SpawnCol
  /\ py' = 0 - 1

(* main.js:320-326  i is the random index drawn by newPiece *)
resetPiece(i) ==
  /\ piece' = newPiece(i)
  /\ px' = SpawnCol
  /\ py' = 0

(* Mutant of gameOver: line 334 missing, the interval is not cleared *)
gameOverKeepsTimer ==
  /\ timers' = timers
  /\ phase' = "GameOver"

(* main.js:332-338  the alert is shown after the interval is cleared *)
gameOver ==
  /\ timers' = clearInterval(timers, loop)
  /\ phase' = "GameOver"

(* main.js:345-356 *)
start ==
  /\ Cardinality(startClear(timers, loop)) < MaxTimers
  /\ \E i \in RandomIndex :
       /\ board' = newBoard
       /\ score' = 0
       /\ resetPiece(i)
  /\ draws' = 1
  /\ loop' = FreshHandle(startClear(timers, loop))
  /\ timers' = startClear(timers, loop) \cup {loop'}
  /\ phase' = "Running"
  /\ lastOp' = "start"
  /\ locks' = 0
  /\ UNCHANGED scoreEl

(* Mutant of tickFall: the piece falls two rows in one tick *)
tickFallTwoRows ==
  /\ py' = py + 2
  /\ draws' = 1
  /\ UNCHANGED <<board, piece, px, score, scoreEl, timers, phase, locks>>

(* Mutant of tickLock: the game-over test of line 309 made on the piece and
   anchor that were just merged, before resetPiece *)
tickLockChecksOldPiece(i) ==
  /\ board' = clearLinesBoard(merge(board, piece, px, py))
  /\ score' = clearLinesScore(merge(board, piece, px, py), score)
  /\ scoreEl' = score'
  /\ resetPiece(i)
  /\ IF collide(board', px, py, piece)
       THEN gameOver /\ draws' = 0
       ELSE draws' = 1 /\ UNCHANGED <<timers, phase>>

(* Mutant of tickLock: clearLines called before merge (lines 302 and 304
   swapped) *)
tickLockClearsFirst(i) ==
  /\ board' = merge(clearLinesBoard(board), piece, px, py)
  /\ score' = clearLinesScore(board, score)
  /\ scoreEl' = score'
  /\ resetPiece(i)
  /\ IF collide(board', px', py', piece')
       THEN gameOver /\ draws' = 0
       ELSE draws' = 1 /\ UNCHANGED <<timers, phase>>

(* Mutant of tickFall: the py++ of line 299 missing *)
tickFallStays ==
  /\ py' = py
  /\ draws' = 1
  /\ UNCHANGED <<board, piece, px, score, scoreEl, timers, phase, locks>>

(* main.js:296-313  one call of tick by the interval timer t.
   tickFall is the branch of line 299; tickLock the branch of lines 302-309,
   which returns gameOver() without reaching draw() when the new piece
   collides where it spawned. *)
tickFall ==
  /\ py' = py + 1
  /\ draws' = 1
  /\ UNCHANGED <<board, piece, px, score, scoreEl, timers, phase, locks>>

tickLock(i) ==
  /\ board' = clearLinesBoard(merge(board, piece, px, py))
  /\ score' = clearLinesScore(merge(board, piece, px, py), score)
  /\ scoreEl' = score'
  /\ resetPiece(i)
  /\ IF collide(board', px', py', piece')
       THEN gameOver /\ draws' = 0
       ELSE draws' = 1 /\ UNCHANGED <<timers, phase>>

tick(t) ==
  /\ t \in timers
  /\ lastOp' = "tick"
  /\ IF ~collide(board, px, py + 1, piece)
       THEN tickFall
       ELSE /\ locks < MaxLocks
            /\ locks' = locks + 1
            /\ \E i \in RandomIndex : tickLock(i)
  /\ UNCHANGED loop

(* main.js:378-393  window.onkeydown for the four keys it tests.  Before the
   first start() board and piece are undefined: collide throws and the
   handler changes nothing. *)
Keys == {"ArrowLeft", "ArrowRight", "ArrowDown", "ArrowUp"}

(* Mutant of keyPx: ArrowLeft applied without its collision test *)
keyPxLeftUnchecked(k) ==
  IF k = "ArrowLeft" THEN px - 1
  ELSE IF k = "ArrowRight" /\ ~collide(board, px + 1, py, piece) THEN px + 1
  ELSE px

(* Mutant of keyPx: ArrowRight moves without asking collide *)
keyPxRightUnchecked(k) ==
  IF k = "ArrowLeft" /\ ~collide(board, px - 1, py, piece) THEN px - 1
  ELSE IF k = "ArrowRight" THEN px + 1
  ELSE px

keyPx(k) ==
  IF k = "ArrowLeft" /\ ~collide(board, px - 1, py, piece) THEN px - 1
  ELSE IF k = "ArrowRight" /\ ~collide(board, px + 1, py, piece) THEN px + 1
  ELSE px

(* Mutant of keyPy: ArrowDown moves without asking collide *)
keyPyUnchecked(k) ==
  IF k = "ArrowDown" THEN py + 1 ELSE py

keyPy(k) ==
  IF k = "ArrowDown" /\ ~collide(board, px, py + 1, piece) THEN py + 1
  ELSE py

(* Mutant of keyPiece: the rotation accepted without its collision test *)
keyPieceUnchecked(k) ==
  IF k = "ArrowUp" THEN rotate(piece) ELSE piece

keyPiece(k) ==
  IF k = "ArrowUp" /\ ~collide(board, px, py, rotate(piece))
    THEN rotate(piece)
    ELSE piece

onkeydown(k) ==
  /\ phase # "Idle"
  /\ px' = keyPx(k)
  /\ py' = keyPy(k)
  /\ piece' = keyPiece(k)
  /\ draws' = 1
  /\ lastOp' = k
  /\ UNCHANGED <<board, score, scoreEl, loop, timers, phase, locks>>

(* main.js:232-252  the cells <<column, row>> at which a call collide(nx, ny,
   np) on board b evaluates board[y][x].  The loops visit the cells of np row
   by row; a filled cell ends the call if it lies outside the walls or below
   the floor (then board is not read for it), if its read throws (y < 0: no
   such row) or if its read finds a settled cell. *)
collideStops(b, nx, ny, np, r, c) ==
  /\ np[r + 1][c + 1] # 0
  /\ LET x == nx + c
         y == ny + r
     IN  \/ x < 0
         \/ x >= COLS
         \/ y >= ROWS
         \/ y < 0
         \/ b[y + 1][x + 1] # 0

collideReads(b, nx, ny, np) ==
  { <<nx + rc[2], ny + rc[1]>> : rc \in
      { q \in (0 .. (Len(np) - 1)) \X (0 .. (Len(np[1]) - 1)) :
          /\ np[q[1] + 1][q[2] + 1] # 0
          /\ nx + q[2] >= 0
          /\ nx + q[2] < COLS
          /\ ny + q[1] < ROWS
          /\ \A e \in (0 .. (Len(np) - 1)) \X (0 .. (Len(np[1]) - 1)) :
               (e[1] < q[1] \/ (e[1] = q[1] /\ e[2] < q[2]))
                 => ~collideStops(b, nx, ny, np, e[1], e[2]) } }

(* main.js:296-313  the board cells a step of tick reads (collide) and
   writes (merge): the test of the row below, and for a lock the cells of
   the piece and the test of the spawned piece on the cleared board *)
tickAccesses ==
  collideReads(board, px, py + 1, piece)
    \cup (IF collide(board, px, py + 1, piece)
            THEN mergeWrites(piece, px, py)
                   \cup collideReads(board', px', py', piece')
            ELSE {})

(* main.js:378-393  the board cells the handler of key k reads *)
keyAccesses(k) ==
  CASE k = "ArrowLeft"  -> collideReads(board, px - 1, py, piece)
    [] k = "ArrowRight" -> collideReads(board, px + 1, py, piece)
    [] k = "ArrowDown"  -> collideReads(board, px, py + 1, piece)
    [] k = "ArrowUp"    -> collideReads(board, px, py, rotate(piece))

(* The handlers the host runs: the Start button, the interval timers, the
   keyboard.  None of them assigns to SHAPES or to an element of its arrays
   (rotate builds new arrays, piece = np rebinds piece). *)
Next ==
  /\ \/ start
     \/ \E t \in timers : tick(t)
     \/ \E k \in Keys : onkeydown(k)
  /\ UNCHANGED <<catalog, call, fallen>>

Spec == Init /\ [][Next]_vars

(* The same handlers, with the ticks counted that the piece has fallen since
   resetPiece spawned it: a tick that finds the row below free counts one
   more, a key leaves the count, start() and a locking tick spawn a piece
   and set it to 0. *)
NextCounted ==
  /\ \/ start
     \/ \E t \in timers : tick(t)
     \/ \E k \in Keys : onkeydown(k)
  /\ UNCHANGED <<catalog, call>>
  /\ fallen' = IF lastOp' = "tick" /\ ~collide(board, px, py + 1, piece)
                 THEN fallen + 1
               ELSE IF lastOp' \in Keys THEN fallen
               ELSE 0

SpecCounted == Init /\ [][NextCounted]_vars

----------------------------------------------------------------------------
(* The helpers called directly, on arguments drawn from bounded sets.  The
   variable call records which helper is called, how many times it has been
   called (n), and the arguments and result of the last call. *)

(* Rows that are neither empty nor full *)
PartRows ==
  { [c \in 1..COLS |-> IF c <= 2 THEN 1 ELSE 0], [c \in 1..COLS |-> c % 2] }

(* main.js:161-165  boards of ROWS rows of COLS cells; collide is called on
   boards without a full row (clearLines has removed them), clearLines on
   boards in which any row may be full *)
UnclearedRows == { EmptyRow, [c \in 1..COLS |-> c % 2], [c \in 1..COLS |-> 1] }

SettledBoards == [1..ROWS -> {EmptyRow} \cup PartRows]

UnclearedBoards == [1..ROWS -> UnclearedRows]

(* main.js:137-145, 366-370  the catalog shapes in each orientation rotate
   gives them *)
Orientations ==
  UNION { { catalog[k], rotate(catalog[k]), rotate(rotate(catalog[k])),
            rotate(rotate(rotate(catalog[k]))) } : k \in DOMAIN catalog }

(* Anchors: columns from two left of the grid to one right of it, rows from
   the top row to one below the floor (no caller passes a negative row) *)
AnchorCols == (0 - 2) .. COLS

AnchorRows == 0 .. ROWS

MaxRotations == 4

InitPure ==
  /\ catalog = SHAPES
  /\ fallen = 0
  /\ loop = 0
  /\ scoreEl = NoText
  /\ timers = {}
  /\ phase = "Idle"
  /\ lastOp = "none"
  /\ draws = 0
  /\ locks = 0
  /\ \/ /\ call = [fn |-> "collide", n |-> 0]
        /\ board \in SettledBoards
        /\ piece \in Orientations
        /\ px \in AnchorCols
        /\ py \in AnchorRows
        /\ score = 0
     \/ /\ call = [fn |-> "clearLines", n |-> 0]
        /\ board \in UnclearedBoards
        /\ piece = newPiece(0)
        /\ px = SpawnCol
        /\ py = 0
        /\ score \in {0, 10}
     \/ /\ call = [fn |-> "rotate", n |-> 0]
        /\ board = newBoard
        /\ piece \in Orientations
        /\ px = SpawnCol
        /\ py = 0
        /\ score = 0

(* main.js:232-252  collide(px, py, piece) *)
callCollide ==
  /\ call.fn = "collide"
  /\ call.n = 0
  /\ call' = [fn |-> "collide", n |-> 1,
              ret |-> collide(board, px, py, piece)]
  /\ UNCHANGED <<board, piece, px, py, score, loop, scoreEl, timers, phase,
                 lastOp, draws, locks, catalog, fallen>>

(* main.js:273-287  clearLines(); call.arg keeps the board and the score it
   was called on *)
callClearLines ==
  /\ call.fn = "clearLines"
  /\ call.n = 0
  /\ board' = clearLinesBoard(board)
  /\ score' = clearLinesScore(board, score)
  /\ scoreEl' = score'
  /\ call' = [fn |-> "clearLines", n |-> 1, arg |-> <<board, score>>]
  /\ UNCHANGED <<piece, px, py, loop, timers, phase, lastOp, draws, locks,
                 catalog, fallen>>

(* main.js:366-370  rotate(piece), then rotate of the result, and so on:
   rotate assigns to nothing, its result is a new array *)
callRotate ==
  /\ call.fn = "rotate"
  /\ call.n < MaxRotations
  /\ LET p == IF call.n = 0 THEN piece ELSE call.ret
     IN  call' = [fn |-> "rotate", n |-> call.n + 1, arg |-> p,
                  ret |-> rotate(p)]
  /\ UNCHANGED <<board, piece, px, py, score, loop, scoreEl, timers, phase,
                 lastOp, draws, locks, catalog, fallen>>

NextPure == callCollide \/ callClearLines \/ callRotate

SpecPure == InitPure /\ [][NextPure]_vars

----------------------------------------------------------------------------
(* Vocabulary of the properties, stated on grid cells <<column, row>> and
   independently of the operators above. *)

(* The grid cells the filled cells of shape p cover when anchored at (x, y) *)
Cells(p, x, y) ==
  { <<x + q[2] - 1, y + q[1] - 1>> :
      q \in { rc \in (1..Len(p)) \X (1..Len(p[1])) : p[rc[1]][rc[2]] = 1 } }

(* p anchored at (x, y) leaves the grid by a wall or the floor, or lies on a
   settled cell of b *)
Blocked(b, p, x, y) ==
  \E cell \in Cells(p, x, y) :
    \/ cell[1] < 0
    \/ cell[1] > COLS - 1
    \/ cell[2] > ROWS - 1
    \/ b[cell[2] + 1][cell[1] + 1] = 1

(* b with the given cells occupied *)
WithCells(b, cells) ==
  [r \in 1..ROWS |-> [c \in 1..COLS |->
     IF <<c - 1, r - 1>> \in cells THEN 1 ELSE b[r][c]]]

FullRow(row) == \A c \in 1..COLS : row[c] = 1

NumFull(b) == Cardinality({r \in 1..ROWS : FullRow(b[r])})

(* The n-th row of b, from the top, that is not full *)
NthKept(b, n) ==
  b[CHOOSE r \in 1..ROWS :
      /\ ~FullRow(b[r])
      /\ Cardinality({q \in 1..r : ~FullRow(b[q])}) = n]

(* b without its full rows, as many empty rows put on top *)
Compacted(b) ==
  [r \in 1..ROWS |->
     IF r <= NumFull(b) THEN [c \in 1..COLS |-> 0]
                        ELSE NthKept(b, r - NumFull(b))]

(* The unrotated catalog shapes *)
Catalog == { SHAPES[n] : n \in DOMAIN SHAPES }

(* The four keys as one-cell moves *)
Offset(k) ==
  CASE k = "ArrowLeft"  -> <<-1, 0>>
    [] k = "ArrowRight" -> <<1, 0>>
    [] k = "ArrowDown"  -> <<0, 1>>

MoveKeys == {"ArrowLeft", "ArrowRight", "ArrowDown"}

(* A step of tick on a piece that cannot descend (any step that is not a
   stuttering step and ends with lastOp = "tick" is a step of tick) *)
LockTick == lastOp' = "tick" /\ Blocked(board, piece, px, py + 1)

FallTick == lastOp' = "tick" /\ ~Blocked(board, piece, px, py + 1)

EntersGameOver == phase # "GameOver" /\ phase' = "GameOver"

----------------------------------------------------------------------------
(* C1: a step enters GameOver exactly when it is a tick on a piece that
   cannot descend and the piece spawned by that tick collides, at its spawn
   position, with the board left by the merge and the row clearing.  No
   start, falling tick, move or rotation enters GameOver. *)
C1_GameOverOnlyOnBlockedSpawn ==
  [][ EntersGameOver <=>
        (LockTick /\ Blocked(board', piece', px', py')) ]_vars

(* C1 witness: a tick has ended the game, the new piece lying on the stack *)
C1_Witness ==
  /\ phase = "GameOver"
  /\ lastOp = "tick"
  /\ Blocked(board, piece, px, py)

(* C2: a tick on a piece that cannot descend merges the piece's cells into
   the board, removes every full row (empty rows on top, the others in
   order), adds 10 per removed row to the score, spawns an unrotated catalog
   shape at (floor(COLS/2) - 1, 0), and only then decides game over by the
   collision of that piece with that board. *)
C2_LockMergesClearsSpawnsThenChecks ==
  [][ LockTick =>
        LET merged == WithCells(board, Cells(piece, px, py))
        IN  /\ board' = Compacted(merged)
            /\ score' = score + 10 * NumFull(merged)
            /\ piece' \in Catalog
            /\ px' = (COLS \div 2) - 1
            /\ py' = 0
            /\ (phase' = "GameOver") <=> Blocked(board', piece', px', py')
    ]_vars

(* C2 witness: a locking tick has run (a falling tick leaves py >= 1) and
   rows have been removed by locks *)
C2_Witness ==
  /\ lastOp = "tick"
  /\ py = 0
  /\ score = 20

(* C3: a tick on a piece that can descend moves it down one row and leaves
   the board, the shape, the column, the score, the phase (Running) and the
   scheduled timer as they were. *)
C3_FallingTickFrame ==
  [][ FallTick =>
        /\ py' = py + 1
        /\ UNCHANGED <<board, piece, px, score, phase, timers, loop>>
        /\ phase' = "Running"
        /\ timers' = {loop'} ]_vars

(* C3 witness: a falling tick has run *)
C3_Witness ==
  /\ lastOp = "tick"
  /\ py >= 1
  /\ phase = "Running"

(* The shape rotate yields, in closed form: for an r x c shape a c x r shape
   whose row i is column c + 1 - i of the shape, read top to bottom
   (transposing and then reversing the order of the rows). *)
Rotated(p) ==
  [i \in 1..Len(p[1]) |-> [j \in 1..Len(p) |-> p[j][Len(p[1]) + 1 - i]]]

(* C4: moveLeft, moveRight and softDrop move the anchor by their one-cell
   offset if and only if the piece would not collide there, and otherwise
   leave it; either way the shape, the board and the score are unchanged,
   nothing is locked, and one render is issued. *)
C4_MoveIffFree ==
  [][ \A k \in MoveKeys :
        lastOp' = k =>
          /\ <<px', py'>> =
               IF ~Blocked(board, piece, px + Offset(k)[1], py + Offset(k)[2])
                 THEN <<px + Offset(k)[1], py + Offset(k)[2]>>
                 ELSE <<px, py>>
          /\ UNCHANGED <<piece, board, score, locks>>
          /\ draws' = 1 ]_vars

(* C4 witness: softDrop was requested and the piece rests where a further
   descent is blocked, still unlocked *)
C4_Witness ==
  /\ lastOp = "ArrowDown"
  /\ phase = "Running"
  /\ Blocked(board, piece, px, py + 1)
  /\ ~Blocked(board, piece, px, py)

(* C5: rotateCW replaces the shape by the rotated shape if and only if the
   rotated shape does not collide at the current anchor, and otherwise keeps
   it; the anchor, the board and the score are unchanged either way. *)
C5_RotateIffFree ==
  [][ lastOp' = "ArrowUp" =>
        /\ piece' = IF ~Blocked(board, Rotated(piece), px, py)
                      THEN Rotated(piece)
                      ELSE piece
        /\ UNCHANGED <<px, py, board, score>> ]_vars

(* C5 witness: a rotation was accepted (the shape is no catalog shape), and
   the same shape's next rotation is blocked here *)
C5_Witness ==
  /\ lastOp = "ArrowUp"
  /\ phase = "Running"
  /\ piece \notin Catalog
  /\ Blocked(board, Rotated(piece), px, py)

(* C6: after GameOver and until the next start(), moveLeft, moveRight,
   softDrop and rotateCW leave the shape, the anchor, the board and the
   score unchanged. *)
C6_NoCommandAfterGameOver ==
  [][ (phase = "GameOver" /\ lastOp' \in Keys) =>
        UNCHANGED <<piece, px, py, board, score>> ]_vars

(* C7: from GameOver until the next start() no tick executes, whatever
   inputs arrive and however long the host's timers run. *)
C7_NoTickAfterGameOver ==
  [][ phase = "GameOver" => lastOp' # "tick" ]_vars

(* C7 witness: the game is over and input has arrived since *)
C7_Witness ==
  /\ phase = "GameOver"
  /\ lastOp \in Keys
  /\ timers = {}

(* C8: at most one periodic tick stream is scheduled at any time, and it is
   the one start() scheduled last. *)
C8_AtMostOneTickStream ==
  /\ Cardinality(timers) <= 1
  /\ timers \subseteq {loop}

(* C8 witness: start() has run after an earlier game locked a piece, and
   one stream is scheduled *)
C8_Witness ==
  /\ lastOp = "start"
  /\ scoreEl # NoText
  /\ Cardinality(timers) = 1

(* C9: every tick issues one render, the tick that enters GameOver
   included. *)
C9_EveryTickRenders == lastOp = "tick" => draws = 1

(* C10: start(), from any state, leaves an empty ROWS x COLS board, score 0,
   phase Running with exactly one tick stream scheduled, and an unrotated
   catalog shape at (floor(COLS/2) - 1, 0) that does not collide.  The state
   it leaves does not depend on the state it was called in (but for the
   random shape), so a second start() in a row leaves the same state. *)
C10_StartResets ==
  lastOp = "start" =>
    /\ board = [r \in 1..ROWS |-> [c \in 1..COLS |-> 0]]
    /\ score = 0
    /\ phase = "Running"
    /\ loop # 0
    /\ timers = {loop}
    /\ piece \in Catalog
    /\ px = (COLS \div 2) - 1
    /\ py = 0
    /\ ~Blocked(board, piece, px, py)
    /\ draws = 1

(* C10 witness: start() has run again after a game in which rows were
   cleared *)
C10_Witness ==
  /\ lastOp = "start"
  /\ scoreEl >= 10
  /\ phase = "Running"

----------------------------------------------------------------------------
(* C11: a call of collide returns true if an occupied cell of the shape lies
   left of the grid, right of it or below it, whatever the board holds;
   when every occupied cell lies on the grid it returns true exactly when
   one of them lies on an occupied board cell; and the call changes neither
   the board, the piece, the anchor nor the score. *)
C11_CollideContract ==
  [][ call'.fn = "collide" =>
        /\ (\E cell \in Cells(piece, px, py) :
               cell[1] < 0 \/ cell[1] >= COLS \/ cell[2] >= ROWS)
             => call'.ret = TRUE
        /\ (\A cell \in Cells(piece, px, py) :
               cell[1] \in 0 .. (COLS - 1) /\ cell[2] \in 0 .. (ROWS - 1))
             => call'.ret =
                  (\E cell \in Cells(piece, px, py) :
                     board[cell[2] + 1][cell[1] + 1] = 1)
        /\ UNCHANGED <<board, piece, px, py, score>> ]_vars

(* collide has answered true for a shape that lies wholly on the grid and
   on an occupied cell of a board that is not empty under it *)
C11_Witness ==
  /\ call.fn = "collide"
  /\ call.n = 1
  /\ call.ret = TRUE
  /\ \A cell \in Cells(piece, px, py) :
       cell[1] \in 0 .. (COLS - 1) /\ cell[2] \in 0 .. (ROWS - 1)
  /\ \E cell \in Cells(piece, px, py) : board[cell[2] + 1][cell[1] + 1] = 1
  /\ \E cell \in Cells(piece, px, py) : board[cell[2] + 1][cell[1] + 1] = 0

----------------------------------------------------------------------------
(* C12: called on a board of ROWS rows of COLS cells of which k are full,
   clearLines leaves a board of ROWS rows of COLS cells: k empty rows on
   top, then the rows that were not full, in their order and as they were;
   and it raises the score by 10 * k (nothing changes when k = 0). *)
C12_ClearLinesContract ==
  (call.fn = "clearLines" /\ call.n = 1) =>
    LET b0 == call.arg[1]
        s0 == call.arg[2]
        k  == NumFull(call.arg[1])
    IN  /\ Len(board) = ROWS
        /\ \A r \in 1..ROWS : Len(board[r]) = COLS
        /\ \A r \in 1..k : \A c \in 1..COLS : board[r][c] = 0
        /\ \A n \in 1 .. (ROWS - k) : board[k + n] = NthKept(b0, n)
        /\ score = s0 + 10 * k
        /\ k = 0 => board = b0 /\ score = s0

(* clearLines has removed two full rows, the bottom one among them, from a
   board whose top row was neither empty nor full, and the score went from
   10 to 30 *)
C12_Witness ==
  /\ call.fn = "clearLines"
  /\ call.n = 1
  /\ NumFull(call.arg[1]) = 2
  /\ FullRow(call.arg[1][ROWS])
  /\ call.arg[1][1] \notin {EmptyRow, [c \in 1..COLS |-> 1]}
  /\ board[ROWS] = call.arg[1][1]
  /\ call.arg[2] = 10
  /\ score = 30

----------------------------------------------------------------------------
(* C13: the score is a non-negative multiple of 10; a tick or a key command
   never lowers it; it changes only in a tick that locks the piece and
   clears rows, and such a tick raises it by 10 for each row cleared. *)
C13_ScoreMonotone ==
  [][ /\ score' \in Nat
      /\ score' % 10 = 0
      /\ lastOp' # "start" =>
           /\ score' >= score
           /\ score' # score =>
                /\ LockTick
                /\ NumFull(WithCells(board, Cells(piece, px, py))) > 0
           /\ LockTick =>
                score' = score
                         + 10 * NumFull(WithCells(board, Cells(piece, px, py)))
    ]_vars

(* Two rows have been cleared and the game goes on *)
C13_Witness ==
  /\ phase = "Running"
  /\ lastOp = "tick"
  /\ score = 20

----------------------------------------------------------------------------
(* The quarter turn clockwise of an r x c shape: the c x r shape whose row
   i, read left to right, is column i of the shape read bottom to top *)
Clockwise(p) ==
  [i \in 1..Len(p[1]) |-> [j \in 1..Len(p) |-> p[Len(p) + 1 - j][i]]]

(* C14: what rotate returns for a catalog shape, or for a shape rotate has
   made of one, is that shape turned a quarter turn clockwise. *)
C14_RotateIsClockwise ==
  (call.fn = "rotate" /\ call.n >= 1) => call.ret = Clockwise(call.arg)

----------------------------------------------------------------------------
(* C15: rotate applied four times in a row, starting from a catalog shape or
   from a rotation of one, returns a shape with the rows, the columns and
   the cells of the shape it started from; and a call of rotate leaves the
   shape it is given as it was. *)
C15_FourRotationsIdentity ==
  [][ call'.fn = "rotate" =>
        /\ piece' = piece
        /\ call'.arg = (IF call.n = 0 THEN piece ELSE call.ret)
        /\ call'.n = 4 =>
             /\ Len(call'.ret) = Len(piece)
             /\ \A r \in 1..Len(piece) :
                  /\ Len(call'.ret[r]) = Len(piece[r])
                  /\ \A c \in 1..Len(piece[r]) : call'.ret[r][c] = piece[r][c]
    ]_vars

(* The fourth rotation of a three-row orientation that is no catalog
   template has given the orientation back, the third had not *)
C15_Witness ==
  /\ call.fn = "rotate"
  /\ call.n = 4
  /\ piece \notin Catalog
  /\ Len(piece) = 3
  /\ call.arg # piece
  /\ call.ret = piece

----------------------------------------------------------------------------
(* C16: once start() has run, whatever ticks, key commands and restarts
   follow, the board has ROWS rows, each row has COLS cells, and each cell
   is empty (0) or occupied (1). *)
C16_BoardShape ==
  phase # "Idle" =>
    /\ Len(board) = ROWS
    /\ \A r \in 1..ROWS :
         /\ Len(board[r]) = COLS
         /\ \A c \in 1..COLS : board[r][c] \in {0, 1}

(* A piece has been locked, a row cleared, cells remain and the next piece
   has been rotated *)
C16_Witness ==
  /\ lastOp = "ArrowUp"
  /\ score = 10
  /\ board # newBoard
  /\ Len(board) = ROWS

----------------------------------------------------------------------------
(* C17: whatever start(), ticks, moves and rotations have run, the catalog
   holds the seven templates as they were defined, and the piece a start()
   or a locking tick has just spawned is one of them, unrotated. *)
C17_CatalogUntouched ==
  /\ catalog = SHAPES
  /\ (phase # "Idle" /\ lastOp \in {"start", "tick"} /\ py = 0) =>
       piece \in Catalog

(* The second lock of a game has just spawned the L template *)
C17_Witness ==
  /\ lastOp = "tick"
  /\ py = 0
  /\ locks = 2
  /\ piece = SHAPES.L
  /\ catalog = SHAPES

----------------------------------------------------------------------------
(* C18, as stated: a tick that enters GameOver leaves the score as it was
   before the tick. *)
C18_ScoreKeptOnGameOver ==
  [][ EntersGameOver => score' = score ]_vars

(* C18, amended: a tick that enters GameOver leaves the score 10 higher per
   row its lock has cleared, and so as it was exactly when its lock has
   cleared no row; the display shows that score. *)
C18_GameOverScoresTheLock ==
  [][ EntersGameOver =>
        LET k == NumFull(WithCells(board, Cells(piece, px, py)))
        IN  /\ score' = score + 10 * k
            /\ (score' = score) <=> (k = 0)
            /\ scoreEl' = score' ]_vars

(* A game in which one row was cleared has ended on a tick that left the
   top row empty above settled cells; no key has been pressed since *)
C18_Witness ==
  /\ phase = "GameOver"
  /\ lastOp = "tick"
  /\ score = 10
  /\ scoreEl = 10
  /\ board[1] = EmptyRow
  /\ board # newBoard

----------------------------------------------------------------------------
(* C19: after every operation that follows the first start(), a restart
   included, the score display shows the current score (the text the page
   shows before the first write to the display is taken to be the score 0
   of a new game). *)
C19_DisplayShowsScore ==
  phase # "Idle" =>
    \/ scoreEl = score
    \/ scoreEl = NoText /\ score = 0

----------------------------------------------------------------------------
(* C20: in every step of tick and of a key command that follows a start(),
   in a game that has ended too, each board cell collide reads and each
   board cell merge writes has a row in 0..ROWS-1 and a column in
   0..COLS-1; and the anchor row is never negative. *)
C20_AccessesOnBoard ==
  [][ /\ py' >= 0
      /\ lastOp' = "tick" =>
           \A cell \in tickAccesses :
             cell[1] \in 0 .. (COLS - 1) /\ cell[2] \in 0 .. (ROWS - 1)
      /\ lastOp' \in Keys =>
           \A cell \in keyAccesses(lastOp') :
             cell[1] \in 0 .. (COLS - 1) /\ cell[2] \in 0 .. (ROWS - 1)
    ]_vars

(* After a game has ended, with settled cells in both bottom corners and in
   the top row, a key command has moved the piece to the left wall *)
C20_Witness ==
  /\ phase = "GameOver"
  /\ lastOp = "ArrowLeft"
  /\ px = 0
  /\ board[ROWS][1] = 1
  /\ board[ROWS][COLS] = 1
  /\ \E c \in 1..COLS : board[1][c] = 1

----------------------------------------------------------------------------
(* The number of occupied cells of b *)
Occupied(b) ==
  Cardinality({ rc \in (1..ROWS) \X (1..COLS) : b[rc[1]][rc[2]] = 1 })

(* C21: after every operation that leaves the game Running, every occupied
   cell of the piece at its anchor is on the grid and on an empty board
   cell.  So a lock writes four cells, all on the grid and all empty before:
   the board has four more occupied cells than before, less the COLS cells
   of each row the lock clears. *)
C21_PieceNeverCollides ==
  [][ /\ phase' = "Running" =>
           \A cell \in Cells(piece', px', py') :
             /\ cell[1] \in 0 .. (COLS - 1)
             /\ cell[2] \in 0 .. (ROWS - 1)
             /\ board'[cell[2] + 1][cell[1] + 1] = 0
      /\ LockTick =>
           /\ Cardinality(Cells(piece, px, py)) = 4
           /\ \A cell \in Cells(piece, px, py) :
                /\ cell[1] \in 0 .. (COLS - 1)
                /\ cell[2] \in 0 .. (ROWS - 1)
                /\ board[cell[2] + 1][cell[1] + 1] = 0
           /\ Occupied(board') =
                Occupied(board) + 4
                  - COLS * NumFull(WithCells(board, Cells(piece, px, py)))
    ]_vars

(* Two pieces have been locked without a row cleared: eight settled cells,
   and the third piece is falling *)
C21_Witness ==
  /\ phase = "Running"
  /\ lastOp = "tick"
  /\ locks = 2
  /\ score = 0
  /\ Occupied(board) = 8
  /\ py = 1

----------------------------------------------------------------------------
(* C22: after every operation that follows a start(), no row of the board
   has all its cells occupied. *)
C22_NoFullRowAtRest ==
  phase # "Idle" => \A r \in 1..ROWS : ~FullRow(board[r])

(* A lock has just cleared a row and spawned the next piece above the cells
   that remain on the bottom row *)
C22_Witness ==
  /\ phase = "Running"
  /\ lastOp = "tick"
  /\ py = 0
  /\ score = 10
  /\ board[ROWS] # EmptyRow
  /\ ~FullRow(board[ROWS])

----------------------------------------------------------------------------
(* C23: a piece falls for at most ROWS - 1 ticks after its spawn, so that
   the ROWS-th tick at the latest locks it, whatever keys are pressed in
   between: no key lowers the anchor row, and a tick either raises it by
   one, counting one more tick fallen, or locks the piece. *)
C23_LockWithinRowsTicks ==
  [][ /\ fallen' <= ROWS - 1
      /\ lastOp' \in Keys => py' >= py /\ fallen' = fallen
      /\ lastOp' = "tick" =>
           \/ py' = py + 1 /\ fallen' = fallen + 1 /\ locks' = locks
           \/ locks' = locks + 1 /\ fallen' = 0
    ]_vars

(* The I piece has fallen ROWS - 1 ticks to the floor, was moved to the
   right wall on its way, and has not been locked yet *)
C23_Witness ==
  /\ phase = "Running"
  /\ lastOp = "ArrowRight"
  /\ fallen = ROWS - 1
  /\ py = ROWS - 1
  /\ px = COLS - 4
  /\ Blocked(board, piece, px, py + 1)

----------------------------------------------------------------------------
(* The shapes a template turns into under one, two and three quarter turns,
   and the template itself *)
Turns(p) == { p, Rotated(p), Rotated(Rotated(p)), Rotated(Rotated(Rotated(p))) }

AllTurns == UNION { Turns(t) : t \in Catalog }

(* C24: after start() the shape of the piece is always a catalog template
   or one of its rotations, with four occupied cells; and a move key, a
   tick that lets the piece fall and a rotation that is rejected leave the
   shape as it was. *)
C24_ShapeIsATemplateTurned ==
  [][ /\ piece' \in AllTurns
      /\ Cardinality(Cells(piece', 0, 0)) = 4
      /\ (lastOp' \in MoveKeys \/ FallTick) => piece' = piece
      /\ (lastOp' = "ArrowUp" /\ Blocked(board, Rotated(piece), px, py))
           => piece' = piece
    ]_vars

(* A turned T template, in a running game, after a further rotation of it
   was rejected because the rotated shape would collide *)
C24_Witness ==
  /\ phase = "Running"
  /\ lastOp = "ArrowUp"
  /\ piece \in Turns(SHAPES.T) \ {SHAPES.T}
  /\ Blocked(board, Rotated(piece), px, py)

====
